---- MODULE Spec2Model ----
(***************************************************************************)
(* A model of the osuite structured-log adapter (src/logger/logger.go):    *)
(* the Logger built by New, the entry options, the single write path and   *)
(* the ten emission methods, the JSON handler's reserved-field rewriting,  *)
(* and the process-wide singleton MustDefault (a sync.OnceValue).          *)
(*                                                                         *)
(* Three specifications share the variables:                               *)
(*   Spec         sequences of emission calls on successive Loggers;       *)
(*   SpecWrite    one Logger and one emission call, over every input;      *)
(*   SpecDefault  goroutines calling MustDefault concurrently.             *)
(***************************************************************************)
EXTENDS Integers, Sequences, FiniteSets, TLC

(***************************************************************************)
(* Bounds of the model.                                                    *)
(***************************************************************************)
MaxCalls == 3
MaxLoggers == 2
MaxOpts == 2
MaxGoroutines == 2
MaxDefaultCalls == 2

(***************************************************************************)
(* Severity levels: slog.Level(logging.X), the backend's numeric scale.    *)
(***************************************************************************)
LevelDefault == 0
LevelDebug == 100
LevelInfo == 200
LevelNotice == 300
LevelWarning == 400
LevelError == 500
LevelCritical == 600
LevelAlert == 700
LevelEmergency == 800

Levels ==
  { LevelDefault, LevelDebug, LevelInfo, LevelNotice, LevelWarning,
    LevelError, LevelCritical, LevelAlert, LevelEmergency }

logMessageKey == "message"
logSeverityKey == "severity"
logSourceLocationKey == "logging.googleapis.com/sourceLocation"
logTraceKey == "logging.googleapis.com/trace"
logSpanIDKey == "logging.googleapis.com/spanId"
logInsertIDKey == "logging.googleapis.com/insertId"

\* The handler's own names of the built-in fields (slog.TimeKey, ...).
TimeKey == "time"
LevelKey == "level"
SourceKey == "source"
MessageKey == "msg"

(***************************************************************************)
(* slog.Attr.  kind is the value's kind; s holds a string value, n a       *)
(* number (a Level, a time, or the ordinal of a generated UUID).  by is a  *)
(* ghost field: who built the attribute (the handler's record, the         *)
(* adapter's write path, or the caller through WithAttrs).                 *)
(***************************************************************************)
Attr(key, kind, s, n, by) ==
  [key |-> key, kind |-> kind, s |-> s, n |-> n, by |-> by]

String(key, s, by) == Attr(key, "String", s, 0, by)

AnyLevel(key, level, by) == Attr(key, "Level", "", level, by)

logAttrReporting ==
  String("@type",
         "type.googleapis.com/google.devtools.clouderrorreporting.v1beta1.ReportedErrorEvent",
         "adapter")

(***************************************************************************)
(* Contexts.  A context.Context is modelled by the correlation values a    *)
(* caller-supplied accessor can read from it.                              *)
(***************************************************************************)
Context(trace, span) == [trace |-> trace, span |-> span]

Contexts ==
  { Context("", ""), Context("abc123", ""),
    Context("", "span-1"), Context("abc123", "span-1") }

(***************************************************************************)
(* Logger and its options.  The injected functions are named by what they  *)
(* compute: getTraceID and getSpanID are "empty" (New's defaults, returning *)
(* "") or "ctx" (read the value from the context); printErr is "verbose"   *)
(* (New's default, fmt.Sprintf("%+v", err)) or "short" (err.Error()).      *)
(* The handler is represented by the options New gives it: minLevel.       *)
(***************************************************************************)
NoLogger ==
  [projectID |-> "", minLevel |-> 0, printErr |-> "none",
   getTraceID |-> "none", getSpanID |-> "none"]

LoggerOption(field, f) == [field |-> field, f |-> f]

WithPrintError(f) == LoggerOption("printErr", f)

WithTraceID(f) == LoggerOption("getTraceID", f)

WithSpanID(f) == LoggerOption("getSpanID", f)

\* One LoggerOption applied to a Logger: the closure's single assignment.
ApplyLoggerOption(l, o) ==
  CASE o.field = "printErr" -> [l EXCEPT !.printErr = o.f]
    [] o.field = "getTraceID" -> [l EXCEPT !.getTraceID = o.f]
    [] o.field = "getSpanID" -> [l EXCEPT !.getSpanID = o.f]

RECURSIVE ApplyLoggerOptions(_, _)
ApplyLoggerOptions(l, opts) ==
  IF opts = <<>> THEN l
  ELSE ApplyLoggerOptions(ApplyLoggerOption(l, Head(opts)), Tail(opts))

\* New: the defaults, then the options in the order given.
New(projectID, minLevel, opts) ==
  ApplyLoggerOptions(
    [projectID |-> projectID, minLevel |-> minLevel, printErr |-> "verbose",
     getTraceID |-> "empty", getSpanID |-> "empty"],
    opts)

\* The injected accessors, called on a context.
GetTraceID(l, ctx) == IF l.getTraceID = "ctx" THEN ctx.trace ELSE ""

GetSpanID(l, ctx) == IF l.getSpanID = "ctx" THEN ctx.span ELSE ""

\* An error value: its message and the stack pkg/errors attached to it.
Errors == { [msg |-> "boom", stack |-> "main.run"] }

PrintErr(l, err) ==
  IF l.printErr = "verbose" THEN err.msg \o "\n" \o err.stack ELSE err.msg

(***************************************************************************)
(* Entry and its options.                                                  *)
(***************************************************************************)
EntryOption(field, attrs, skip, report) ==
  [field |-> field, attrs |-> attrs, skip |-> skip, report |-> report]

WithAttrs(attrs) == EntryOption("additionalAttrs", attrs, 0, FALSE)

WithSkipCaller(skip) == EntryOption("skipCaller", <<>>, skip, FALSE)

WithErrorReport(report) == EntryOption("errorReport", <<>>, 0, report)

\* One EntryOption applied to an Entry: the closure's single assignment.
ApplyEntryOption(e, o) ==
  CASE o.field = "additionalAttrs" -> [e EXCEPT !.additionalAttrs = o.attrs]
    [] o.field = "skipCaller" -> [e EXCEPT !.skipCaller = o.skip]
    [] o.field = "errorReport" -> [e EXCEPT !.errorReport = o.report]

RECURSIVE ApplyEntryOptions(_, _)
ApplyEntryOptions(e, opts) ==
  IF opts = <<>> THEN e
  ELSE ApplyEntryOptions(ApplyEntryOption(e, Head(opts)), Tail(opts))

\* NewEntry: level and msg, zero values elsewhere, then the options in order.
NewEntry(level, msg, opts) ==
  ApplyEntryOptions(
    [level |-> level, msg |-> msg, additionalAttrs |-> <<>>,
     skipCaller |-> 0, errorReport |-> FALSE],
    opts)

\* The entry left as the caller's options made it.
KeepErrorReport(entry) == entry

\* entry.errorReport = true, as Error, Critical, Alert and Emergency do
\* after NewEntry has applied the caller's options.
SetErrorReport(entry) == [entry EXCEPT !.errorReport = TRUE]

(***************************************************************************)
(* The write path's helpers.                                               *)
(***************************************************************************)
defaultSkipCaller == 3

\* The goroutine's stack when write calls runtime.Callers, innermost first:
\* 0: runtime.Callers, 1: Logger.write, 2: Logger.<Exported Method>,
\* 3: <Your Code>, and the frame that called it.
CallStack(method) ==
  << "runtime.Callers", "Logger.write", "Logger." \o method,
     "app.Handle", "app.main" >>

\* runtime.Callers(skip, pcs[:]) with a one-slot array: the frame skip levels
\* up the stack, or "" (pcs[0] stays 0) when the stack is not that deep.
Callers(skip, method) ==
  IF skip + 1 <= Len(CallStack(method)) THEN CallStack(method)[skip + 1] ELSE ""

\* An insertion ID drawn from the clock instead of uuid.NewString().
InsertIDFromTime(now, seq) == Attr(logInsertIDKey, "String", "time", now, "adapter")

\* slog.String(logInsertIDKey, uuid.NewString()): seq counts the UUIDs the
\* process has generated so far, and the new value is the next one.
InsertID(now, seq) == Attr(logInsertIDKey, "String", "uuid", seq + 1, "adapter")

\* The resource name with the two identifiers exchanged.
TraceNameSwapped(projectID, traceID) ==
  "projects/" \o traceID \o "/traces/" \o projectID

\* fmt.Sprintf("projects/%s/traces/%s", l.projectID, traceID)
TraceName(projectID, traceID) ==
  "projects/" \o projectID \o "/traces/" \o traceID

\* The span check made beside the trace check instead of inside it.
TraceAttrsUnnested(l, ctx) ==
  (IF GetTraceID(l, ctx) # ""
     THEN << String(logTraceKey, TraceName(l.projectID, GetTraceID(l, ctx)), "adapter") >>
     ELSE << >>)
  \o (IF GetSpanID(l, ctx) # ""
        THEN << String(logSpanIDKey, GetSpanID(l, ctx), "adapter") >>
        ELSE << >>)

\* The trace attribute and, nested in the same condition, the span attribute.
TraceAttrs(l, ctx) ==
  IF GetTraceID(l, ctx) # ""
    THEN << String(logTraceKey, TraceName(l.projectID, GetTraceID(l, ctx)), "adapter") >>
         \o (IF GetSpanID(l, ctx) # ""
               THEN << String(logSpanIDKey, GetSpanID(l, ctx), "adapter") >>
               ELSE << >>)
    ELSE << >>

\* The entry's own attributes put before the adapter's.
WriteAttrsCallerFirst(l, ctx, entry, insertId) ==
  entry.additionalAttrs
  \o << insertId >>
  \o (IF entry.errorReport THEN << logAttrReporting >> ELSE << >>)
  \o TraceAttrs(l, ctx)

\* attrs, as write builds it before r.AddAttrs(attrs...).
WriteAttrs(l, ctx, entry, insertId) ==
  << insertId >>
  \o (IF entry.errorReport THEN << logAttrReporting >> ELSE << >>)
  \o TraceAttrs(l, ctx)
  \o entry.additionalAttrs

\* slog.NewRecord(now, level, msg, pc); pc is named by its frame.
NewRecord(now, level, msg, pc) ==
  [time |-> now, level |-> level, msg |-> msg, pc |-> pc, attrs |-> << >>]

AddAttrs(r, attrs) == [r EXCEPT !.attrs = @ \o attrs]

NoRecord == NewRecord(0, 0, "", "")

(***************************************************************************)
(* The handler New builds: slog.NewJSONHandler with AddSource, Level and   *)
(* ReplaceAttr.                                                            *)
(***************************************************************************)
\* A threshold the level must exceed.
EnabledAbove(l, level) == level > l.minLevel

\* handler.Enabled(ctx, level) under HandlerOptions{Level: minLevel}.
Enabled(l, level) == level >= l.minLevel

Digit == << "0", "1", "2", "3", "4", "5", "6", "7", "8", "9" >>

RECURSIVE Itoa(_)
Itoa(n) ==
  IF n < 0 THEN "-" \o Itoa(-n)
  ELSE IF n < 10 THEN Digit[n + 1]
  ELSE Itoa(n \div 10) \o Digit[(n % 10) + 1]

\* logging.Severity(level).String(): the client library's name of the
\* severity (its severityName table), or the number when it has none.
SeverityString(level) ==
  CASE level = LevelDefault -> "Default"
    [] level = LevelDebug -> "Debug"
    [] level = LevelInfo -> "Info"
    [] level = LevelNotice -> "Notice"
    [] level = LevelWarning -> "Warning"
    [] level = LevelError -> "Error"
    [] level = LevelCritical -> "Critical"
    [] level = LevelAlert -> "Alert"
    [] level = LevelEmergency -> "Emergency"
    [] OTHER -> Itoa(level)

\* What replaceAttr yields when its type assertion a.Value.Any().(slog.Level)
\* fails: the call panics and there is no attribute.
PanicAttr ==
  Attr("", "PANIC", "interface conversion: interface {} is not slog.Level", 0, "handler")

\* A rewriting that leaves the message key as the handler named it.
replaceAttrKeepsMsg(a) ==
  CASE a.key = LevelKey ->
         IF a.kind = "Level"
           THEN String(logSeverityKey, SeverityString(a.n), a.by)
           ELSE PanicAttr
    [] a.key = SourceKey -> [a EXCEPT !.key = logSourceLocationKey]
    [] OTHER -> a

\* replaceAttr, the ReplaceAttr option New installs.  The handler calls it on
\* every attribute that is not a group: the built-in ones and the record's.
replaceAttr(a) ==
  CASE a.key = LevelKey ->
         IF a.kind = "Level"
           THEN String(logSeverityKey, SeverityString(a.n), a.by)
           ELSE PanicAttr
    [] a.key = SourceKey -> [a EXCEPT !.key = logSourceLocationKey]
    [] a.key = MessageKey -> [a EXCEPT !.key = logMessageKey]
    [] OTHER -> a

\* The attributes the JSON handler encodes for a record, in its order: time,
\* level, source (AddSource) and msg, then the record's attributes.
HandlerFields(r) ==
  << Attr(TimeKey, "Time", "", r.time, "handler"),
     AnyLevel(LevelKey, r.level, "handler"),
     Attr(SourceKey, "Source", r.pc, 0, "handler"),
     String(MessageKey, r.msg, "handler") >>
  \o r.attrs

\* handler.Handle(ctx, r): every field goes through replaceAttr and the
\* object is written once all are encoded; a panic in replaceAttr unwinds
\* through Handle and nothing is written.
Handle(r) ==
  LET fields == HandlerFields(r)
      out == [i \in 1..Len(fields) |-> replaceAttr(fields[i])]
  IN IF \E i \in 1..Len(out) : out[i].kind = "PANIC"
       THEN [panicked |-> TRUE, output |-> << >>]
       ELSE [panicked |-> FALSE, output |-> out]

(***************************************************************************)
(* The inputs the specifications draw from.                                *)
(***************************************************************************)
SeqsUpTo(S, n) == UNION { [1..k -> S] : k \in 0..n }

ProjectIDs == { "proj-x", "proj-y" }

MinLevels == { LevelDefault, LevelWarning }

LoggerOptionLists ==
  { << >>,
    << WithTraceID("ctx") >>,
    << WithSpanID("ctx") >>,
    << WithTraceID("ctx"), WithSpanID("ctx") >>,
    << WithPrintError("short"), WithSpanID("ctx"), WithTraceID("ctx") >> }

Messages == { "hello" }

\* Attribute lists a caller passes to WithAttrs: an ordinary key and a key
\* the adapter also writes; a text under the handler's key "level"; the
\* handler's names of the built-in fields, with a severity under "level".
AttrsUser ==
  << String("user", "alice", "caller"),
     String(logSpanIDKey, "caller-span", "caller") >>

AttrsLevelText == << String(LevelKey, "high", "caller") >>

AttrsReserved ==
  << String(MessageKey, "again", "caller"),
     AnyLevel(LevelKey, LevelNotice, "caller"),
     String(SourceKey, "cli", "caller") >>

AttrLists == { AttrsUser, AttrsLevelText, AttrsReserved }

EntryOptions ==
  { WithAttrs(a) : a \in AttrLists }
  \cup { WithSkipCaller(1) }
  \cup { WithErrorReport(b) : b \in BOOLEAN }

\* Every option list of up to MaxOpts options (SpecWrite).
EntryOptionLists == SeqsUpTo(EntryOptions, MaxOpts)

\* The option lists of the call sequences (Spec).
FewEntryOptionLists == { << >>, << WithAttrs(AttrsUser) >> }

ErrorMethods == { "Error", "Critical", "Alert", "Emergency" }

(***************************************************************************)
(* State.                                                                  *)
(*   logger, nLoggers   the Logger in use and how many New has built       *)
(*   uuidSeq            how many UUIDs uuid.NewString has generated        *)
(*   handled            the handler's log: one entry for each Handle call, *)
(*                      in order (see HandledEntry)                        *)
(*   last               the latest emission call: its arguments, the       *)
(*                      record handed to the handler, the encoded output   *)
(*   calls, passed      ghost counters: emission calls made, and those     *)
(*                      whose level was at or above the Logger's threshold *)
(* and, for MustDefault (a sync.OnceValue):                                *)
(*   env                the value of GOOGLE_CLOUD_PROJECT                  *)
(*   done, mutex        the Once: its done flag and who holds its mutex    *)
(*   valid, result      OnceValue's valid flag and cached result           *)
(*   newCount           how many times MustDefault's function called New   *)
(*   gpc, gcalls        each goroutine's position in its MustDefault call, *)
(*                      and how many calls it has made                     *)
(*   gslow              ghost: whether the goroutine's current call took   *)
(*                      the Once's slow path (it saw done unset)           *)
(*   returned           ghost: the outcome of every finished call          *)
(*   seenEnv            ghost: the value os.Getenv returned to the         *)
(*                      function's first run ("unread" before it)          *)
(***************************************************************************)
VARIABLES logger, nLoggers, uuidSeq, handled, last, calls, passed,
          env, done, mutex, valid, result, newCount,
          gpc, gcalls, gslow, returned, seenEnv

loggerVars == << logger, nLoggers, uuidSeq, handled, last, calls, passed >>

onceVars ==
  << env, done, mutex, valid, result, newCount, gpc, gcalls, gslow, returned, seenEnv >>

vars == << loggerVars, onceVars >>

NoEntry == NewEntry(0, "", << >>)

NoCall ==
  [method |-> "none", ctx |-> Context("", ""), entry |-> NoEntry, opts |-> << >>,
   logger |-> NoLogger, outcome |-> "none", record |-> NoRecord, output |-> << >>]

Goroutines == 1..MaxGoroutines

NoOutcome == [kind |-> "none", id |-> 0, logger |-> NoLogger]

InitLogger ==
  /\ logger = NoLogger
  /\ nLoggers = 0
  /\ uuidSeq = 0
  /\ handled = << >>
  /\ last = NoCall
  /\ calls = 0
  /\ passed = 0

InitOnce ==
  /\ done = FALSE
  /\ mutex = 0
  /\ valid = FALSE
  /\ result = NoOutcome
  /\ newCount = 0
  /\ gpc = [g \in Goroutines |-> "idle"]
  /\ gcalls = [g \in Goroutines |-> 0]
  /\ gslow = [g \in Goroutines |-> FALSE]
  /\ returned = { }
  /\ seenEnv = "unread"

\* The process before any Logger is built; MustDefault is not used.
Init == InitLogger /\ InitOnce /\ env = ""

(***************************************************************************)
(* Operations on a Logger.                                                 *)
(***************************************************************************)
\* What the handler's log keeps of a record handed to Handle by the Logger
\* numbered loggerNo: its time and the insertion-ID attributes the adapter
\* put in it.
HandledEntry(loggerNo, r) ==
  [logger |-> loggerNo, time |-> r.time,
   insertIds |-> SelectSeq(r.attrs,
                           LAMBDA a : a.key = logInsertIDKey /\ a.by = "adapter")]

\* logger := New(w, projectID, minLevel, opts...)
NewLogger(projectID, minLevel, opts) ==
  /\ logger' = New(projectID, minLevel, opts)
  /\ nLoggers' = nLoggers + 1
  /\ UNCHANGED << uuidSeq, handled, last, calls, passed >>
  /\ UNCHANGED onceVars

\* l.write(ctx, entry), called from the exported method named method at time
\* now.  opts is a ghost: the options the entry was built from.
Write(method, ctx, entry, opts, now) ==
  LET insertId == InsertID(now, uuidSeq)
      pc == Callers(defaultSkipCaller + entry.skipCaller, method)
      r == AddAttrs(NewRecord(now, entry.level, entry.msg, pc),
                    WriteAttrs(logger, ctx, entry, insertId))
      h == Handle(r)
      call == [method |-> method, ctx |-> ctx, entry |-> entry, opts |-> opts,
               logger |-> logger, outcome |-> "dropped", record |-> NoRecord,
               output |-> << >>]
  IN /\ nLoggers > 0
     /\ calls' = calls + 1
     /\ passed' = IF entry.level >= logger.minLevel THEN passed + 1 ELSE passed
     /\ IF ~Enabled(logger, entry.level)
          THEN /\ last' = call
               /\ UNCHANGED << uuidSeq, handled >>
          ELSE /\ uuidSeq' = uuidSeq + 1
               /\ handled' = Append(handled, HandledEntry(nLoggers, r))
               /\ last' = [call EXCEPT
                             !.outcome = IF h.panicked THEN "panic" ELSE "written",
                             !.record = r,
                             !.output = h.output]
     /\ UNCHANGED << logger, nLoggers >>
     /\ UNCHANGED onceVars

Default(ctx, msg, opts, now) ==
  Write("Default", ctx, NewEntry(LevelDefault, msg, opts), opts, now)

Debug(ctx, msg, opts, now) ==
  Write("Debug", ctx, NewEntry(LevelDebug, msg, opts), opts, now)

Info(ctx, msg, opts, now) ==
  Write("Info", ctx, NewEntry(LevelInfo, msg, opts), opts, now)

Notice(ctx, msg, opts, now) ==
  Write("Notice", ctx, NewEntry(LevelNotice, msg, opts), opts, now)

Warn(ctx, msg, opts, now) ==
  Write("Warn", ctx, NewEntry(LevelWarning, msg, opts), opts, now)

Error(ctx, err, opts, now) ==
  Write("Error", ctx,
        SetErrorReport(NewEntry(LevelError, PrintErr(logger, err), opts)), opts, now)

Critical(ctx, err, opts, now) ==
  Write("Critical", ctx,
        SetErrorReport(NewEntry(LevelCritical, PrintErr(logger, err), opts)), opts, now)

Alert(ctx, err, opts, now) ==
  Write("Alert", ctx,
        SetErrorReport(NewEntry(LevelAlert, PrintErr(logger, err), opts)), opts, now)

Emergency(ctx, err, opts, now) ==
  Write("Emergency", ctx,
        SetErrorReport(NewEntry(LevelEmergency, PrintErr(logger, err), opts)), opts, now)

\* Custom(ctx, entry); the caller built entry with NewEntry(level, msg, opts...).
Custom(ctx, entry, opts, now) == Write("Custom", ctx, entry, opts, now)

(***************************************************************************)
(* Spec: a program that builds up to MaxLoggers Loggers, one after the     *)
(* other, and makes up to MaxCalls emission calls on the one in use.       *)
(***************************************************************************)
SpecLoggerOptionLists == { << >>, << WithTraceID("ctx") >> }

SpecContexts == { Context("abc123", "span-1") }

\* Every call of a run falls within one tick of the clock.
SpecTimes == { 10 }

SpecCustomLevels == { 0 - 4, LevelError }

Next ==
  \/ /\ nLoggers < MaxLoggers
     /\ \E minLevel \in MinLevels, opts \in SpecLoggerOptionLists :
          NewLogger("proj-x", minLevel, opts)
  \/ /\ calls < MaxCalls
     /\ \E ctx \in SpecContexts, opts \in FewEntryOptionLists,
           now \in SpecTimes, msg \in Messages :
          Default(ctx, msg, opts, now)
  \/ /\ calls < MaxCalls
     /\ \E ctx \in SpecContexts, opts \in FewEntryOptionLists,
           now \in SpecTimes, msg \in Messages :
          Debug(ctx, msg, opts, now)
  \/ /\ calls < MaxCalls
     /\ \E ctx \in SpecContexts, opts \in FewEntryOptionLists,
           now \in SpecTimes, msg \in Messages :
          Info(ctx, msg, opts, now)
  \/ /\ calls < MaxCalls
     /\ \E ctx \in SpecContexts, opts \in FewEntryOptionLists,
           now \in SpecTimes, msg \in Messages :
          Notice(ctx, msg, opts, now)
  \/ /\ calls < MaxCalls
     /\ \E ctx \in SpecContexts, opts \in FewEntryOptionLists,
           now \in SpecTimes, msg \in Messages :
          Warn(ctx, msg, opts, now)
  \/ /\ calls < MaxCalls
     /\ \E ctx \in SpecContexts, opts \in FewEntryOptionLists,
           now \in SpecTimes, err \in Errors :
          Error(ctx, err, opts, now)
  \/ /\ calls < MaxCalls
     /\ \E ctx \in SpecContexts, opts \in FewEntryOptionLists,
           now \in SpecTimes, err \in Errors :
          Critical(ctx, err, opts, now)
  \/ /\ calls < MaxCalls
     /\ \E ctx \in SpecContexts, opts \in FewEntryOptionLists,
           now \in SpecTimes, err \in Errors :
          Alert(ctx, err, opts, now)
  \/ /\ calls < MaxCalls
     /\ \E ctx \in SpecContexts, opts \in FewEntryOptionLists,
           now \in SpecTimes, err \in Errors :
          Emergency(ctx, err, opts, now)
  \/ /\ calls < MaxCalls
     /\ \E ctx \in SpecContexts, opts \in FewEntryOptionLists,
           now \in SpecTimes, level \in SpecCustomLevels, msg \in Messages :
          Custom(ctx, NewEntry(level, msg, opts), opts, now)

Spec == Init /\ [][Next]_vars

(***************************************************************************)
(* SpecWrite: one Logger and one emission call, over every combination of  *)
(* the Logger's construction arguments and the call's arguments.           *)
(***************************************************************************)
WriteTimes == { 10 }

WriteCustomLevels == { 0 - 4, 150, LevelError }

NextWrite ==
  \/ /\ nLoggers = 0
     /\ \E projectID \in ProjectIDs, minLevel \in MinLevels,
           opts \in LoggerOptionLists :
          NewLogger(projectID, minLevel, opts)
  \/ /\ calls = 0
     /\ \E ctx \in Contexts, opts \in EntryOptionLists,
           now \in WriteTimes, msg \in Messages :
          Default(ctx, msg, opts, now)
  \/ /\ calls = 0
     /\ \E ctx \in Contexts, opts \in EntryOptionLists,
           now \in WriteTimes, msg \in Messages :
          Debug(ctx, msg, opts, now)
  \/ /\ calls = 0
     /\ \E ctx \in Contexts, opts \in EntryOptionLists,
           now \in WriteTimes, msg \in Messages :
          Info(ctx, msg, opts, now)
  \/ /\ calls = 0
     /\ \E ctx \in Contexts, opts \in EntryOptionLists,
           now \in WriteTimes, msg \in Messages :
          Notice(ctx, msg, opts, now)
  \/ /\ calls = 0
     /\ \E ctx \in Contexts, opts \in EntryOptionLists,
           now \in WriteTimes, msg \in Messages :
          Warn(ctx, msg, opts, now)
  \/ /\ calls = 0
     /\ \E ctx \in Contexts, opts \in EntryOptionLists,
           now \in WriteTimes, err \in Errors :
          Error(ctx, err, opts, now)
  \/ /\ calls = 0
     /\ \E ctx \in Contexts, opts \in EntryOptionLists,
           now \in WriteTimes, err \in Errors :
          Critical(ctx, err, opts, now)
  \/ /\ calls = 0
     /\ \E ctx \in Contexts, opts \in EntryOptionLists,
           now \in WriteTimes, err \in Errors :
          Alert(ctx, err, opts, now)
  \/ /\ calls = 0
     /\ \E ctx \in Contexts, opts \in EntryOptionLists,
           now \in WriteTimes, err \in Errors :
          Emergency(ctx, err, opts, now)
  \/ /\ calls = 0
     /\ \E ctx \in Contexts, opts \in EntryOptionLists,
           now \in WriteTimes, level \in WriteCustomLevels, msg \in Messages :
          Custom(ctx, NewEntry(level, msg, opts), opts, now)

SpecWrite == Init /\ [][NextWrite]_vars

(***************************************************************************)
(* MustDefault = sync.OnceValue(func() *Logger { ... }).                   *)
(***************************************************************************)
EnvValues == { "", "proj-x", "proj-y" }

PanicOutcome == [kind |-> "panic", id |-> 0, logger |-> NoLogger]

\* The function without its check of the project ID.
DefaultLoggerUnchecked(projectID, id) ==
  [kind |-> "logger", id |-> id, logger |-> New(projectID, LevelDefault, << >>)]

\* The function MustDefault wraps, run with projectID := os.Getenv(...): it
\* panics, or returns the Logger New allocates (id names the allocation).
DefaultLogger(projectID, id) ==
  IF projectID = ""
    THEN PanicOutcome
    ELSE [kind |-> "logger", id |-> id,
          logger |-> New(projectID, LevelDefault, << >>)]

\* A slow path that runs the function without looking at done again.
NeedsRunUnchecked(d) == TRUE

\* The Once's test of done, made again under its mutex.
NeedsRun(d) == ~d

\* os.Setenv("GOOGLE_CLOUD_PROJECT", v), or os.Unsetenv, by any code.
SetEnv(v) ==
  /\ env # v
  /\ env' = v
  /\ UNCHANGED << done, mutex, valid, result, newCount, gpc, gcalls, gslow,
                  returned, seenEnv >>
  /\ UNCHANGED loggerVars

\* A goroutine calls MustDefault(): once.Do's fast path reads done.
CallMustDefault(g) ==
  /\ gpc[g] = "idle"
  /\ gcalls[g] < MaxDefaultCalls
  /\ gcalls' = [gcalls EXCEPT ![g] = @ + 1]
  /\ gslow' = [gslow EXCEPT ![g] = ~done]
  /\ gpc' = [gpc EXCEPT ![g] = IF done THEN "check" ELSE "lock"]
  /\ UNCHANGED << env, done, mutex, valid, result, newCount, returned, seenEnv >>
  /\ UNCHANGED loggerVars

\* doSlow: o.m.Lock()
Lock(g) ==
  /\ gpc[g] = "lock"
  /\ mutex = 0
  /\ mutex' = g
  /\ gpc' = [gpc EXCEPT ![g] = "slow"]
  /\ UNCHANGED << env, done, valid, result, newCount, gcalls, gslow, returned,
                  seenEnv >>
  /\ UNCHANGED loggerVars

\* doSlow under the mutex: if done is still unset, run the function, keep its
\* result and set valid unless it panicked, then set done; unlock.  A panic
\* leaves valid unset and unwinds to the caller of MustDefault.
DoSlow(g) ==
  /\ gpc[g] = "slow"
  /\ mutex = g
  /\ mutex' = 0
  /\ IF NeedsRun(done)
       THEN LET out == DefaultLogger(env, newCount + 1)
            IN /\ done' = TRUE
               /\ seenEnv' = IF seenEnv = "unread" THEN env ELSE seenEnv
               /\ IF out.kind = "panic"
                    THEN /\ gpc' = [gpc EXCEPT ![g] = "idle"]
                         /\ returned' =
                              returned \cup { [g |-> g, slow |-> gslow[g], out |-> out] }
                         /\ UNCHANGED << valid, result, newCount >>
                    ELSE /\ result' = out
                         /\ valid' = TRUE
                         /\ newCount' = newCount + 1
                         /\ gpc' = [gpc EXCEPT ![g] = "check"]
                         /\ UNCHANGED returned
       ELSE /\ gpc' = [gpc EXCEPT ![g] = "check"]
            /\ UNCHANGED << done, seenEnv, valid, result, newCount, returned >>
  /\ UNCHANGED << env, gcalls, gslow >>
  /\ UNCHANGED loggerVars

\* After once.Do: if !valid { panic(p) }; return result.
Return(g) ==
  /\ gpc[g] = "check"
  /\ gpc' = [gpc EXCEPT ![g] = "idle"]
  /\ returned' =
       returned \cup { [g |-> g, slow |-> gslow[g],
                        out |-> IF valid THEN result ELSE PanicOutcome] }
  /\ UNCHANGED << env, done, mutex, valid, result, newCount, gcalls, gslow, seenEnv >>
  /\ UNCHANGED loggerVars

(***************************************************************************)
(* SpecDefault: MaxGoroutines goroutines, each calling MustDefault up to   *)
(* MaxDefaultCalls times (a caller may recover from the panic), while the  *)
(* environment may change.                                                 *)
(***************************************************************************)
InitDefault == InitLogger /\ InitOnce /\ env \in EnvValues

NextDefault ==
  \/ \E v \in EnvValues : SetEnv(v)
  \/ \E g \in Goroutines : CallMustDefault(g)
  \/ \E g \in Goroutines : Lock(g)
  \/ \E g \in Goroutines : DoSlow(g)
  \/ \E g \in Goroutines : Return(g)

SpecDefault == InitDefault /\ [][NextDefault]_vars

(***************************************************************************)
(* Vocabulary of the properties.                                           *)
(***************************************************************************)
\* The latest call's record reached the handler (Handle was called).
ReachedHandler == last.outcome \in { "written", "panic" }

HasKey(attrs, key) == \E i \in 1..Len(attrs) : attrs[i].key = key

Keys(attrs) == [i \in 1..Len(attrs) |-> attrs[i].key]

\* An attribute as the output shows it: key and value, without the ghost.
Shown(a) == [key |-> a.key, kind |-> a.kind, s |-> a.s, n |-> a.n]

ShownAll(attrs) == [i \in 1..Len(attrs) |-> Shown(attrs[i])]

BuiltBy(attrs, who) == SelectSeq(attrs, LAMBDA a : a.by = who)

\* What the latest call's accessors return for its context.
LastTraceID == GetTraceID(last.logger, last.ctx)

LastSpanID == GetSpanID(last.logger, last.ctx)

\* The attributes the adapter put in the latest record.
Generated == BuiltBy(last.record.attrs, "adapter")

OptionIndexes(opts, field) == { i \in 1..Len(opts) : opts[i].field = field }

Greatest(S) == CHOOSE x \in S : \A y \in S : y <= x

\* The last option of the given kind in an option list (the list has one).
LastOption(opts, field) == opts[Greatest(OptionIndexes(opts, field))]

(***************************************************************************)
(* Properties of Spec.                                                     *)
(***************************************************************************)
\* C1: an emission call whose level is below the Logger's threshold hands
\* no record to the handler, one at or above it hands over exactly one, and
\* after any sequence of calls the handler has been handed as many records
\* as there were calls at or above the threshold.
C1_ThresholdFilter ==
  /\ Len(handled) = passed
  /\ last.method # "none" =>
       /\ last.entry.level < last.logger.minLevel => last.outcome = "dropped"
       /\ last.entry.level >= last.logger.minLevel => ReachedHandler

\* Calls on both sides of the threshold have been made, the latest dropped.
C1_Witness ==
  /\ passed >= 2
  /\ calls > passed
  /\ last.outcome = "dropped"
  /\ last.entry.level < last.logger.minLevel

\* C6: every record handed to the handler carries exactly one insertion-ID
\* attribute generated by the adapter, generated within that write call, and
\* the insertion IDs of any two handled records differ, whichever Logger,
\* message, level and timestamp they have.
C6_InsertIDUnique ==
  /\ \A i \in 1..Len(handled) : Len(handled[i].insertIds) = 1
  /\ \A i, j \in 1..Len(handled) :
       i # j => Shown(handled[i].insertIds[1]) # Shown(handled[j].insertIds[1])
  /\ ReachedHandler =>
       /\ Len(Generated) >= 1
       /\ Generated[1] = handled[Len(handled)].insertIds[1]
       /\ Generated[1].s = "uuid"
       /\ Generated[1].n = uuidSeq

\* Three records were handled: two with the same timestamp through two
\* different Loggers, and two with the same timestamp through the same one.
C6_Witness ==
  /\ Len(handled) >= 3
  /\ \E i, j \in 1..Len(handled) :
       /\ handled[i].logger # handled[j].logger
       /\ handled[i].time = handled[j].time
  /\ \E i, j \in 1..Len(handled) :
       /\ i # j
       /\ handled[i].logger = handled[j].logger
       /\ handled[i].time = handled[j].time

(***************************************************************************)
(* Properties of SpecWrite.                                                *)
(***************************************************************************)
\* C2: in a record handed to the handler, the adapter's span attribute is
\* present only beside its trace attribute: exactly when the trace accessor
\* and the span accessor both returned a non-empty string; with an empty
\* trace and a non-empty span there is no span attribute.
C2_SpanOnlyWithTrace ==
  ReachedHandler =>
    /\ HasKey(Generated, logSpanIDKey) => HasKey(Generated, logTraceKey)
    /\ HasKey(Generated, logSpanIDKey) <=> (LastTraceID # "" /\ LastSpanID # "")
    /\ (LastTraceID = "" /\ LastSpanID # "") => ~HasKey(Generated, logSpanIDKey)

\* A record was handed over while the span accessor returned a span and the
\* trace accessor returned none.
C2_Witness ==
  /\ ReachedHandler
  /\ LastTraceID = ""
  /\ LastSpanID = "span-1"

\* Whether the last WithErrorReport option of the list, if any, gave true.
LastErrorReportIsTrue(opts) ==
  /\ OptionIndexes(opts, "errorReport") # { }
  /\ LastOption(opts, "errorReport").report

\* C3: the error-report marker (@type) is in a record handed to the handler
\* exactly when the entry's error-report flag is set; Error, Critical, Alert
\* and Emergency always attach it, whatever the options; Default, Debug,
\* Info, Notice and Warn attach it exactly when the last WithErrorReport
\* option given is WithErrorReport(true).
C3_ErrorReportMarker ==
  ReachedHandler =>
    /\ HasKey(last.record.attrs, "@type") <=> last.entry.errorReport
    /\ \A i \in 1..Len(last.record.attrs) :
         last.record.attrs[i].key = "@type" =>
           Shown(last.record.attrs[i]) = Shown(logAttrReporting)
    /\ last.method \in ErrorMethods => HasKey(last.record.attrs, "@type")
    /\ last.method \in { "Default", "Debug", "Info", "Notice", "Warn" } =>
         (HasKey(last.record.attrs, "@type") <=> LastErrorReportIsTrue(last.opts))

\* Error was called with WithErrorReport(false) as its last option, and its
\* record reached the handler.
C3_Witness ==
  /\ ReachedHandler
  /\ last.method = "Error"
  /\ Len(last.opts) = MaxOpts
  /\ last.opts[Len(last.opts)] = WithErrorReport(FALSE)

\* The severity names of the backend's LogSeverity enumeration.
BackendSeverityName(level) ==
  CASE level = LevelDefault -> "DEFAULT"
    [] level = LevelDebug -> "DEBUG"
    [] level = LevelInfo -> "INFO"
    [] level = LevelNotice -> "NOTICE"
    [] level = LevelWarning -> "WARNING"
    [] level = LevelError -> "ERROR"
    [] level = LevelCritical -> "CRITICAL"
    [] level = LevelAlert -> "ALERT"
    [] level = LevelEmergency -> "EMERGENCY"

\* The same names as the client library writes them.
CapitalisedSeverityName(level) ==
  CASE level = LevelDefault -> "Default"
    [] level = LevelDebug -> "Debug"
    [] level = LevelInfo -> "Info"
    [] level = LevelNotice -> "Notice"
    [] level = LevelWarning -> "Warning"
    [] level = LevelError -> "Error"
    [] level = LevelCritical -> "Critical"
    [] level = LevelAlert -> "Alert"
    [] level = LevelEmergency -> "Emergency"

\* The built-in fields of the latest call's encoded output.
BuiltIn == BuiltBy(last.output, "handler")

\* The built-in fields are time, severity, source location and message under
\* the backend's keys, none under the handler's own names.
BuiltInFieldsRenamed ==
  /\ Keys(BuiltIn) = << TimeKey, logSeverityKey, logSourceLocationKey, logMessageKey >>
  /\ BuiltIn[4].s = last.entry.msg
  /\ \A i \in 1..Len(BuiltIn) : BuiltIn[i].key \notin { MessageKey, LevelKey, SourceKey }

C8_TraceResourceName ==
  ReachedHandler =>
    /\ HasKey(Generated, logTraceKey) <=> LastTraceID # ""
    /\ \A i \in 1..Len(Generated) :
         Generated[i].key = logTraceKey =>
           /\ Generated[i].kind = "String"
           /\ Generated[i].s =
                "projects/" \o last.logger.projectID \o "/traces/" \o LastTraceID
           /\ (last.logger.projectID = "proj-x" /\ LastTraceID = "abc123") =>
                Generated[i].s = "projects/proj-x/traces/abc123"
    /\ last.logger.getTraceID = "empty" =>
         /\ ~HasKey(Generated, logTraceKey)
         /\ ~HasKey(Generated, logSpanIDKey)

\* A Logger of project proj-x handed over a record of the trace abc123.
C8_Witness ==
  /\ ReachedHandler
  /\ last.logger.projectID = "proj-x"
  /\ LastTraceID = "abc123"

\* The attributes of the last WithAttrs option of the list; none without one.
LastWithAttrs(opts) ==
  IF OptionIndexes(opts, "additionalAttrs") = { } THEN << >>
  ELSE LastOption(opts, "additionalAttrs").attrs

\* C9: the attributes of a record handed to the handler are, in this order,
\* the insertion ID, the error-report marker if the flag is set, the trace
\* attribute if there is one, the span attribute if there is one, and then
\* the entry's own attributes in the caller's order; no attribute of the
\* adapter follows one of the caller's, and of several WithAttrs options
\* only the last one's attributes are attached.
C9_AttributeOrder ==
  ReachedHandler =>
    /\ Keys(Generated) =
         << logInsertIDKey >>
         \o (IF last.entry.errorReport THEN << "@type" >> ELSE << >>)
         \o (IF LastTraceID # "" THEN << logTraceKey >> ELSE << >>)
         \o (IF LastTraceID # "" /\ LastSpanID # "" THEN << logSpanIDKey >> ELSE << >>)
    /\ last.record.attrs = Generated \o LastWithAttrs(last.opts)
    /\ \A i, j \in 1..Len(last.record.attrs) :
         (last.record.attrs[i].by = "caller" /\ last.record.attrs[j].by = "adapter")
           => j < i

\* A record with all four attributes of the adapter was handed over for a
\* call given two WithAttrs options with different attributes.
C9_Witness ==
  /\ ReachedHandler
  /\ last.entry.errorReport
  /\ LastTraceID # ""
  /\ LastSpanID # ""
  /\ Len(last.opts) = 2
  /\ last.opts[1].field = "additionalAttrs"
  /\ last.opts[2].field = "additionalAttrs"
  /\ last.opts[1].attrs # last.opts[2].attrs

\* C10: an emission at or above the threshold does not panic, and the output
\* has each of the caller's attributes under the key and with the value the
\* caller gave, whatever its key: the rewriting of reserved fields touches
\* the built-in fields only.
C10_CallerAttrsDelivered ==
  ReachedHandler =>
    /\ last.outcome # "panic"
    /\ ShownAll(BuiltBy(last.output, "caller")) = ShownAll(last.entry.additionalAttrs)

(***************************************************************************)
(* Properties of SpecDefault.                                              *)
(***************************************************************************)
\* The finished calls that returned a Logger.
ReturnedLoggers == { r \in returned : r.out.kind = "logger" }

\* C4: when GOOGLE_CLOUD_PROJECT is set at MustDefault's first use, every
\* call, in any interleaving, returns the same Logger instance, none panics,
\* and New is called exactly once in the process.
C4_SingletonConstructedOnce ==
  /\ newCount <= 1
  /\ \A r1, r2 \in ReturnedLoggers : r1.out.id = r2.out.id
  /\ seenEnv \notin { "unread", "" } =>
       /\ newCount = 1
       /\ \A r \in returned :
            /\ r.out.kind = "logger"
            /\ r.out.id = 1
            /\ r.out.logger = New(seenEnv, LevelDefault, << >>)

\* Two goroutines raced on the first use (both saw done unset) and both got
\* the Logger, and a later call got it too.
C4_Witness ==
  /\ \E r1, r2 \in ReturnedLoggers : r1.g # r2.g /\ r1.slow /\ r2.slow
  /\ \E r \in ReturnedLoggers : ~r.slow

\* C5: when GOOGLE_CLOUD_PROJECT is unset or empty at MustDefault's first
\* use, New is never called and every call, the first and any later one from
\* any goroutine, panics; no call ever returns a Logger without a project ID.
C5_UnsetProjectPanics ==
  /\ seenEnv = "" =>
       /\ newCount = 0
       /\ \A r \in returned : r.out.kind = "panic"
  /\ \A r \in ReturnedLoggers : r.out.logger.projectID # ""

\* The first use found the variable empty and panicked; the variable was set
\* afterwards, and a later call by another goroutine panicked all the same.
C5_Witness ==
  /\ seenEnv = ""
  /\ env # ""
  /\ \E r1, r2 \in returned :
       /\ r1.g # r2.g
       /\ r1.slow /\ r1.out.kind = "panic"
       /\ ~r2.slow /\ r2.out.kind = "panic"

====
